---- MODULE Spec2Model ----
(***************************************************************************)
(* GrantHunter_Bot: the discovery pipeline of src/App.tsx                  *)
(* (handleRunDiscovery) and src/unnamed/part_001 (services/gemini.ts,      *)
(* discoverGrants), as a state machine over the React state of App.        *)
(*                                                                         *)
(* A text is a sequence of tokens.  A token is a record [k, t, i]: k is    *)
(* the kind ("ws" one whitespace character, "x" one prose character,       *)
(* "fj" the characters ```json, "f" the characters ```, "lb" '[',          *)
(* "rb" ']', "comma" ',', "obj" one JSON object literal), t the object's   *)
(* program_title and i the "id" field the object supplies (0 if none; a    *)
(* supplied id is a negative number, a uuid a positive one).               *)
(***************************************************************************)
EXTENDS Integers, Sequences, FiniteSets, TLC

VARIABLES apiKey, eager, config, isScanning, logs, grants, rendered, queue,
          run, nReq, nextId, pIn, pOut, gIn, gOut

vars == <<apiKey, eager, config, isScanning, logs, grants, rendered, queue,
          run, nReq, nextId, pIn, pOut,
                   gIn, gOut>>

appVars == <<apiKey, eager, config, isScanning, logs, grants, rendered, queue,
             run, nReq, nextId>>

(***************************************************************************)
(* Bounds of the model.                                                    *)
(***************************************************************************)
MaxRequests == 2
MaxItems == 2
MaxNoise == 3
MaxChunks == 1
MaxEditRequests == 0
MaxSources == 4

(***************************************************************************)
(* Tokens and texts.                                                       *)
(***************************************************************************)
Tok(k) == [k |-> k, t |-> "", i |-> 0]

Obj(t, i) == [k |-> "obj", t |-> t, i |-> i]

\* String.prototype.toLowerCase on the titles of the model.
toLowerCase(t) == CASE t = "A" -> "a"
                    [] t = "B" -> "b"
                    [] OTHER -> t

SeqsUpTo(S, n) == UNION {[1..m -> S] : m \in 0..n}

RECURSIVE DropWhileWs(_)
DropWhileWs(s) == IF s # <<>> /\ Head(s).k = "ws" THEN DropWhileWs(Tail(s)) ELSE s

Front(s) == SubSeq(s, 1, Len(s) - 1)

RECURSIVE DropTrailingWs(_)
DropTrailingWs(s) ==
    IF s # <<>> /\ s[Len(s)].k = "ws" THEN DropTrailingWs(Front(s)) ELSE s

\* text.trim()
trim(s) == DropTrailingWs(DropWhileWs(s))

\* .replace(/^```json\s*/, '')
stripLeadingFence(s) ==
    IF s # <<>> /\ Head(s).k = "fj" THEN DropWhileWs(Tail(s)) ELSE s

\* .replace(/\s*```$/, '')
stripTrailingFence(s) ==
    IF s # <<>> /\ s[Len(s)].k = "f" THEN DropTrailingWs(Front(s)) ELSE s

\* cleanJson before the slice: trim, then the two replaces.
cleanJson(text) == stripTrailingFence(stripLeadingFence(trim(text)))

\* indexOf('['): the first position (1-based), 0 for JavaScript's -1.
indexOf(s, k) ==
    IF \E j \in 1..Len(s) : s[j].k = k
    THEN CHOOSE j \in 1..Len(s) : s[j].k = k /\ \A m \in 1..(j - 1) : s[m].k # k
    ELSE 0

firstIndexOf(s, k) == indexOf(s, k)

\* lastIndexOf(']'): the last position (1-based), 0 for JavaScript's -1.
lastIndexOf(s, k) ==
    IF \E j \in 1..Len(s) : s[j].k = k
    THEN CHOOSE j \in 1..Len(s) : s[j].k = k /\ \A m \in (j + 1)..Len(s) : s[m].k # k
    ELSE 0

\* substring(a, b) on 0-based indices: the arguments are swapped when a > b.
substring(s, a, b) ==
    LET lo == IF a <= b THEN a ELSE b
        hi == IF a <= b THEN b ELSE a
    IN  SubSeq(s, lo + 1, hi)

\* cleanJson.substring(startIdx, endIdx + 1), startIdx and endIdx 0-based.
slice(s, startIdx, endIdx) == substring(s, startIdx, endIdx + 1)

(***************************************************************************)
(* JSON.parse on a token text: e is what the grammar expects next          *)
(* ("start" a value, "voc" a value or ']', "value" a value after a comma,  *)
(* "coc" a comma or ']', "end" nothing more), d the depth of open arrays.  *)
(***************************************************************************)
RECURSIVE jsonScan(_, _, _, _)
jsonScan(s, j, d, e) ==
    IF j > Len(s) THEN e = "end"
    ELSE LET k == s[j].k IN
         CASE k = "ws" -> jsonScan(s, j + 1, d, e)
           [] k = "lb" -> /\ e \in {"start", "voc", "value"}
                          /\ jsonScan(s, j + 1, d + 1, "voc")
           [] k = "obj" -> /\ e \in {"start", "voc", "value"}
                           /\ jsonScan(s, j + 1, d, IF d = 0 THEN "end" ELSE "coc")
           [] k = "comma" -> /\ e = "coc"
                             /\ jsonScan(s, j + 1, d, "value")
           [] k = "rb" -> /\ e \in {"voc", "coc"}
                          /\ jsonScan(s, j + 1, d - 1, IF d = 1 THEN "end" ELSE "coc")
           [] OTHER -> FALSE

\* The parsed value, as its whitespace-free serialisation.
canon(s) == SelectSeq(s, LAMBDA tk : tk.k # "ws")

\* JSON.parse: [ok |-> FALSE] for a SyntaxError, else the value.
JSONparse(s) ==
    IF jsonScan(s, 1, 0, "start")
    THEN [ok |-> TRUE, value |-> canon(s)]
    ELSE [ok |-> FALSE, value |-> <<>>]

isArray(v) == v # <<>> /\ v[1].k = "lb"

\* The elements of an array of objects (the Grant JSON schema: the answers
\* of the model hold no array inside the array).
elements(v) == SelectSeq(v, LAMBDA tk : tk.k = "obj")

(***************************************************************************)
(* The response clean-up of discoverGrants, lines 93-114: what the text    *)
(* parses to.  kind is "empty" (no text), "nobracket" (startIdx or endIdx  *)
(* is -1), "syntax" (JSON.parse throws) or "value".                        *)
(***************************************************************************)
parse(text) ==
    IF text = <<>> THEN [kind |-> "empty", value |-> <<>>]
    ELSE LET c == cleanJson(text)
             startIdx == indexOf(c, "lb") - 1
             endIdx == lastIndexOf(c, "rb") - 1
         IN  IF startIdx = -1 \/ endIdx = -1
             THEN [kind |-> "nobracket", value |-> <<>>]
             ELSE LET p == JSONparse(slice(c, startIdx, endIdx))
                  IN  IF p.ok THEN [kind |-> "value", value |-> p.value]
                      ELSE [kind |-> "syntax", value |-> <<>>]

(***************************************************************************)
(* Inputs of the parse step: a JSON array of Grant objects serialised      *)
(* with a blank after each comma, and the noise wrapped around it.         *)
(***************************************************************************)
Items == {Obj("A", 0), Obj("a", -1), Obj("B", -1)}

RECURSIVE joinItems(_)
joinItems(items) ==
    IF items = <<>> THEN <<>>
    ELSE IF Len(items) = 1 THEN <<items[1]>>
    ELSE <<items[1], Tok("comma"), Tok("ws")>> \o joinItems(Tail(items))

\* JSON.stringify of an array of objects, for the model's tokens.
serialise(items) == <<Tok("lb")>> \o joinItems(items) \o <<Tok("rb")>>

NoiseTokens == {Tok("ws"), Tok("x"), Tok("fj"), Tok("f"), Tok("lb"), Tok("rb")}

Noise == SeqsUpTo(NoiseTokens, MaxNoise)

ParseItems == {Obj("A", 0), Obj("B", -1)}

\* The noise after a prefix: MaxNoise tokens in all around the array.
NoiseAfter(pre) == SeqsUpTo(NoiseTokens, MaxNoise - Len(pre))

ParseArrays == {serialise(items) : items \in SeqsUpTo(ParseItems, MaxItems)}

has(s, k) == \E j \in 1..Len(s) : s[j].k = k

(***************************************************************************)
(* Log entries: the run that appended it (0: outside a run), the message   *)
(* (a tag for the message text), the level and the number in the message.  *)
(***************************************************************************)
L(r, msg, level, n) == [run |-> r, msg |-> msg, level |-> level, n |-> n]

(***************************************************************************)
(* discoverGrants, up to the await of generateContent (lines 15-78).       *)
(***************************************************************************)
discoverGrantsProlog(r) ==
    << L(r, "protocol", "INFO", 0), L(r, "year", "INFO", 0),
       L(r, "keywords", "INFO", 0), L(r, "query", "INFO", 0) >>

(***************************************************************************)
(* The grounding log, lines 83-91.  A chunk is "web" (a web.uri that       *)
(* new URL accepts), "bad" (a web.uri new URL throws a TypeError on) or    *)
(* "nouri" (no web.uri).  idx is the 0-based index of the head of list.    *)
(***************************************************************************)
CrawlLimit == 3

RECURSIVE crawl(_, _, _)
crawl(r, list, idx) ==
    IF list = <<>> THEN [thrown |-> FALSE, logs |-> <<>>]
    ELSE IF Head(list) # "nouri" /\ idx < CrawlLimit
    THEN IF Head(list) = "bad" THEN [thrown |-> TRUE, logs |-> <<>>]
         ELSE LET rest == crawl(r, Tail(list), idx + 1)
              IN  [thrown |-> rest.thrown,
                   logs |-> <<L(r, "crawled", "INFO", 0)>> \o rest.logs]
    ELSE crawl(r, Tail(list), idx + 1)

groundingLog(r, chunks) ==
    IF ~chunks.has THEN [thrown |-> FALSE, logs |-> <<>>]
    ELSE LET c == crawl(r, chunks.list, 0)
         IN  [thrown |-> c.thrown,
              logs |-> <<L(r, "accessed", "INFO", Len(chunks.list))>> \o c.logs]

(***************************************************************************)
(* The map to Grant, lines 119-123: { id: uuidv4(), ...item, ... }.  The   *)
(* j-th element gets the uuid id0 + j; the spread of item follows the id   *)
(* key, so an "id" the element supplies replaces the uuid.                 *)
(***************************************************************************)
toGrant(item, uuid) ==
    [id |-> IF item.i # 0 THEN item.i ELSE uuid, program_title |-> item.t]

mapToGrants(items, id0) == [j \in 1..Len(items) |-> toGrant(items[j], id0 + j)]

(***************************************************************************)
(* discoverGrants from the resolution of generateContent on (lines         *)
(* 80-130).  resp is the provider's answer: error (the call rejects),      *)
(* chunks (the grounding chunks, has = FALSE when absent) and text.        *)
(* The result: ok (FALSE: the promise rejects), the Grants returned and    *)
(* the entries passed to onLog.                                            *)
(***************************************************************************)
catchDiscovery(r, sofar) ==
    [ok |-> FALSE, grants |-> <<>>,
     logs |-> sofar \o <<L(r, "discerror", "ERROR", 0)>>]

discoverGrantsLenient(r, resp, id0) ==
    LET objs == SelectSeq(resp.text, LAMBDA tk : tk.k = "obj")
    IN  [ok |-> TRUE, grants |-> mapToGrants(objs, id0),
         logs |-> <<L(r, "searchdone", "SUCCESS", 0),
                    L(r, "extracted", "SUCCESS", Len(objs))>>]

discoverGrants(r, resp, id0) ==
    IF resp.error THEN catchDiscovery(r, <<>>)
    ELSE LET g == groundingLog(r, resp.chunks)
             l1 == <<L(r, "searchdone", "SUCCESS", 0)>> \o g.logs
             p == parse(resp.text)
         IN  IF g.thrown THEN catchDiscovery(r, l1)
             ELSE IF p.kind = "empty" THEN catchDiscovery(r, l1)
             ELSE IF p.kind = "nobracket"
             THEN catchDiscovery(r, l1 \o <<L(r, "parsefail", "ERROR", 0)>>)
             ELSE IF p.kind = "syntax" THEN catchDiscovery(r, l1)
             ELSE IF ~isArray(p.value)
             \* parsedData.length is undefined, parsedData.map is not a function
             THEN catchDiscovery(r, l1 \o <<L(r, "extracted", "SUCCESS", 0)>>)
             ELSE LET items == elements(p.value)
                  IN  [ok |-> TRUE, grants |-> mapToGrants(items, id0),
                       logs |-> l1 \o <<L(r, "extracted", "SUCCESS", Len(items))>>]

(***************************************************************************)
(* The setGrants updater, lines 59-68.                                     *)
(***************************************************************************)
existingTitles(prev) == {toLowerCase(prev[j].program_title) : j \in 1..Len(prev)}

uniqueResultsCaseSensitive(results, prev) ==
    SelectSeq(results, LAMBDA g :
        g.program_title \notin {prev[j].program_title : j \in 1..Len(prev)})

uniqueResults(results, prev) ==
    SelectSeq(results, LAMBDA g :
        toLowerCase(g.program_title) \notin existingTitles(prev))

\* [...uniqueResults, ...prev]
mergedDropped(unique, prev) == prev

mergedReplaced(unique, prev) == unique

merged(unique, prev) == unique \o prev

\* The addLog of lines 64-66.
filteredLog(r, results, unique) ==
    IF Len(unique) < Len(results)
    THEN <<L(r, "filtered", "WARNING", Len(results) - Len(unique))>>
    ELSE <<>>

\* The number in the entries of a 'Filtered' log, 0 when there is none.
logged(entries) == IF entries = <<>> THEN 0 ELSE entries[1].n

(***************************************************************************)
(* The test of line 71 and of line 75.                                     *)
(***************************************************************************)
shouldNotify(newGrants, cfg) ==
    Len(newGrants) > 0 /\ cfg.notificationEnabled /\ cfg.emailRecipient # ""

shouldLogSkip(newGrants, cfg) ==
    Len(newGrants) > 0 /\ (~cfg.notificationEnabled \/ cfg.emailRecipient = "")

\* The missing API key, line 41.
missingKeyLogsInfo == <<L(0, "nokey", "INFO", 0)>>

missingKeyLogs == <<L(0, "nokey", "ERROR", 0)>>

\* catch, lines 79-81
catchLogsInfo(r) == <<L(r, "aborted", "INFO", 0)>>

catchLogs(r) == <<L(r, "aborted", "ERROR", 0)>>

\* finally, line 83: setIsScanning(false)
finallyStillScanning == TRUE

finallyIsScanning == FALSE

\* finally, line 84
finallyLogs(r) == <<L(r, "finalized", "INFO", 0)>>

(***************************************************************************)
(* sendNotification (services/notification): one dispatch attempt,         *)
(* reported on the log.                                                    *)
(***************************************************************************)
dispatchLogs(r) == <<L(r, "dispatch", "INFO", 0)>>

notifyResultLogs(r, outcome) ==
    CASE outcome = "sent" -> <<L(r, "sent", "SUCCESS", 0)>>
      [] outcome = "failed" -> <<L(r, "notifyfail", "ERROR", 0)>>
      [] OTHER -> <<>>

(***************************************************************************)
(* The provider's answers the runs draw from.                              *)
(***************************************************************************)
ChunkKinds == {"web", "bad", "nouri"}

Chunks == {[has |-> FALSE, list |-> <<>>]}
              \cup {[has |-> TRUE, list |-> l] : l \in SeqsUpTo(ChunkKinds, MaxChunks)}

fenced(text) == <<Tok("fj"), Tok("ws")>> \o text \o <<Tok("ws"), Tok("f")>>

Arrays == {serialise(items) : items \in SeqsUpTo(Items, MaxItems)}

\* No text, no bracket, no ']', ']' before '[', prose between the brackets.
BadTexts == { <<>>, <<Tok("x")>>, <<Tok("lb"), Obj("A", 0)>>,
              <<Tok("rb"), Obj("A", 0), Tok("lb")>>,
              <<Tok("lb"), Tok("x"), Tok("rb")>> }

Texts == Arrays \cup {fenced(serialise(<<Obj("B", -1)>>))} \cup BadTexts

NoChunks == [has |-> FALSE, list |-> <<>>]

\* The provider's call rejects; or it answers: each text without grounding
\* chunks, and each list of grounding chunks with one text.
Responses ==
    {[error |-> TRUE, chunks |-> NoChunks, text |-> <<>>]}
        \cup {[error |-> FALSE, chunks |-> NoChunks, text |-> t] : t \in Texts}
        \cup {[error |-> FALSE, chunks |-> c, text |-> serialise(<<Obj("A", 0)>>)] :
                 c \in Chunks}

\* The extraction or the parse of this answer fails (spec 4.2, 4.3, 7).
Fails(resp) ==
    \/ resp.error
    \/ resp.text = <<>>
    \/ ~has(cleanJson(resp.text), "lb")
    \/ ~has(cleanJson(resp.text), "rb")
    \/ parse(resp.text).kind = "syntax"

(***************************************************************************)
(* State.  config, isScanning, logs and grants are the useState values of  *)
(* App with every update made so far applied; rendered is what the last    *)
(* committed render gave the event handlers (the isScanning and config     *)
(* that handleRunDiscovery closes over); queue holds the setGrants         *)
(* updaters React has not run yet; eager tells whether this build of       *)
(* React runs an updater inside the set call (a legacy root, which         *)
(* processes an update made outside an event handler at once) or at the    *)
(* next render (a concurrent root, which batches it).  apiKey is           *)
(* process.env.API_KEY being set.  run[r] is the invocation r of          *)
(* handleRunDiscovery: its place (pc), its closure's config (cfg), the     *)
(* value discoverGrants returned (results), the local newGrants at line    *)
(* 71, and what is recorded about it: whether the answer it got Fails      *)
(* (failed), whether its updater has run (updated), on which repository    *)
(* (prev), with which uniqueResults (added), the number in its 'Filtered'  *)
(* log (filtered, 0: no such log) and its sendNotification call (notify).  *)
(***************************************************************************)
Runs == 1..MaxRequests

NoRun == [pc |-> "none",
          cfg |-> [notificationEnabled |-> FALSE, emailRecipient |-> ""],
          results |-> <<>>, newGrants |-> <<>>, failed |-> FALSE,
          updated |-> FALSE, prev |-> <<>>, added |-> <<>>, filtered |-> 0,
          notify |-> "none"]

InitApp ==
    /\ apiKey \in BOOLEAN
    /\ eager \in BOOLEAN
    /\ config = [notificationEnabled |-> FALSE, emailRecipient |-> ""]
    /\ isScanning = FALSE
    /\ logs = <<L(0, "initialized", "INFO", 0)>>
    /\ grants = <<>>
    /\ rendered = [isScanning |-> FALSE,
                   config |-> [notificationEnabled |-> FALSE, emailRecipient |-> ""]]
    /\ queue = <<>>
    /\ run = [r \in Runs |-> NoRun]
    /\ nReq = 0
    /\ nextId = 0

\* pIn and pOut are the text and the result of the parse step taken alone;
\* gIn and gOut the text, the two lists of grounding chunks and the two
\* results of discoverGrants taken alone.
NoDiscovery == [ok |-> FALSE, grants |-> <<>>, logs |-> <<>>]

NoComparison ==
    /\ gIn = [text |-> <<>>, a |-> NoChunks, b |-> NoChunks]
    /\ gOut = [done |-> FALSE, a |-> NoDiscovery, b |-> NoDiscovery]

Init ==
    /\ InitApp
    /\ pIn = [pre |-> <<>>, array |-> <<>>, suf |-> <<>>]
    /\ pOut = [done |-> FALSE, kind |-> "", value |-> <<>>]
    /\ NoComparison

(***************************************************************************)
(* The Email Alerts checkbox and the recipient input (App.tsx 196-215).    *)
(***************************************************************************)
ToggleNotification ==
    /\ nReq <= MaxEditRequests
    /\ config' = [config EXCEPT
                    !.notificationEnabled = ~rendered.config.notificationEnabled]
    /\ config' # config
    /\ UNCHANGED <<apiKey, eager, isScanning, logs, grants, rendered, queue, run, nReq,
                   nextId, pIn, pOut,
                   gIn, gOut>>

EditRecipient ==
    /\ nReq <= MaxEditRequests
    /\ rendered.config.notificationEnabled
    /\ \E v \in {"", "r"} :
          /\ v # config.emailRecipient
          /\ config' = [config EXCEPT !.emailRecipient = v]
    /\ UNCHANGED <<apiKey, eager, isScanning, logs, grants, rendered, queue, run, nReq,
                   nextId, pIn, pOut,
                   gIn, gOut>>

(***************************************************************************)
(* handleRunDiscovery, from its invocation to the await of                 *)
(* generateContent inside discoverGrants (App.tsx 39-53).                  *)
(***************************************************************************)
StartNoKey ==
    /\ nReq < MaxRequests
    /\ ~apiKey
    /\ nReq' = nReq + 1
    /\ logs' = logs \o missingKeyLogs
    /\ run' = [run EXCEPT ![nReq + 1].pc = "nokey"]
    /\ UNCHANGED <<apiKey, eager, config, isScanning, grants, rendered, queue, nextId,
                   pIn, pOut, gIn, gOut>>

StartIgnored ==
    /\ nReq < MaxRequests
    /\ apiKey
    /\ rendered.isScanning
    /\ nReq' = nReq + 1
    /\ run' = [run EXCEPT ![nReq + 1].pc = "ignored"]
    /\ UNCHANGED <<apiKey, eager, config, isScanning, logs, grants, rendered, queue,
                   nextId, pIn, pOut,
                   gIn, gOut>>

StartRun ==
    /\ nReq < MaxRequests
    /\ apiKey
    /\ ~rendered.isScanning
    /\ nReq' = nReq + 1
    /\ isScanning' = TRUE
    /\ logs' = <<L(nReq + 1, "start", "INFO", 0)>> \o discoverGrantsProlog(nReq + 1)
    /\ run' = [run EXCEPT ![nReq + 1].pc = "extracting",
                          ![nReq + 1].cfg = rendered.config]
    /\ UNCHANGED <<apiKey, eager, config, grants, rendered, queue, nextId, pIn, pOut,
                   gIn, gOut>>

(***************************************************************************)
(* handleRunDiscovery from the settling of generateContent to its next     *)
(* await or its end (gemini 80-130, App.tsx 53-85).  React runs the        *)
(* setGrants updater inside the setGrants call (eager) or queues it for    *)
(* the next render.                                                        *)
(***************************************************************************)
ExtractionSettles(r) ==
    /\ run[r].pc = "extracting"
    /\ \E resp \in Responses :
          LET d == discoverGrants(r, resp, nextId)
              unique == uniqueResults(d.grants, grants)
              newGrants == IF d.ok /\ eager THEN unique ELSE <<>>
              notifying == d.ok /\ shouldNotify(newGrants, run[r].cfg)
          IN  /\ nextId' = nextId + Len(d.grants)
              /\ grants' = IF d.ok /\ eager THEN merged(unique, grants) ELSE grants
              /\ queue' = IF d.ok /\ ~eager
                          THEN Append(queue, [run |-> r, results |-> d.grants])
                          ELSE queue
              /\ logs' = logs \o d.logs
                         \o (IF d.ok /\ eager THEN filteredLog(r, d.grants, unique) ELSE <<>>)
                         \o (IF ~d.ok THEN catchLogs(r) ELSE <<>>)
                         \o (IF notifying THEN dispatchLogs(r) ELSE <<>>)
                         \o (IF d.ok /\ shouldLogSkip(newGrants, run[r].cfg)
                             THEN <<L(r, "skip", "INFO", 0)>> ELSE <<>>)
                         \o (IF notifying THEN <<>> ELSE finallyLogs(r))
              /\ isScanning' = IF notifying THEN isScanning ELSE finallyIsScanning
              /\ run' = [run EXCEPT ![r] =
                    [@ EXCEPT !.pc = IF notifying THEN "notifying" ELSE "done",
                              !.results = d.grants,
                              !.newGrants = newGrants,
                              !.failed = Fails(resp),
                              !.updated = d.ok /\ eager,
                              !.prev = IF d.ok /\ eager THEN grants ELSE <<>>,
                              !.added = IF d.ok /\ eager THEN unique ELSE <<>>,
                              !.filtered = IF d.ok /\ eager
                                           THEN logged(filteredLog(r, d.grants, unique))
                                           ELSE 0,
                              !.notify = IF notifying THEN "pending" ELSE "none"]]
    /\ UNCHANGED <<apiKey, eager, config, rendered, nReq, pIn, pOut, gIn, gOut>>

(***************************************************************************)
(* handleRunDiscovery from the settling of sendNotification to its end     *)
(* (App.tsx 72-85).  "failed": the dispatcher caught the failure and       *)
(* logged it; "rejected": the awaited promise rejects.                     *)
(***************************************************************************)
NotificationSettles(r) ==
    /\ run[r].pc = "notifying"
    /\ \E outcome \in {"sent", "failed", "rejected"} :
          /\ logs' = logs \o notifyResultLogs(r, outcome)
                     \o (IF outcome = "rejected" THEN catchLogs(r) ELSE <<>>)
                     \o finallyLogs(r)
          /\ run' = [run EXCEPT ![r].pc = "done", ![r].notify = outcome]
    /\ isScanning' = finallyIsScanning
    /\ UNCHANGED <<apiKey, eager, config, grants, rendered, queue, nReq, nextId, pIn, pOut,
                   gIn, gOut>>

(***************************************************************************)
(* A render of App: React runs the queued setGrants updaters in order      *)
(* (each on the repository the one before it left, with its addLog) and    *)
(* commits; the handlers of the new render close over the new state.       *)
(***************************************************************************)
RECURSIVE flush(_, _, _, _)
flush(q, g, ls, rn) ==
    IF q = <<>> THEN [grants |-> g, logs |-> ls, run |-> rn]
    ELSE LET u == Head(q)
             unique == uniqueResults(u.results, g)
         IN  flush(Tail(q), merged(unique, g),
                   ls \o filteredLog(u.run, u.results, unique),
                   [rn EXCEPT ![u.run] =
                       [@ EXCEPT !.updated = TRUE, !.prev = g, !.added = unique,
                                 !.filtered =
                                     logged(filteredLog(u.run, u.results, unique))]])

Render ==
    /\ \/ queue # <<>>
       \/ rendered # [isScanning |-> isScanning, config |-> config]
    /\ LET f == flush(queue, grants, logs, run)
       IN  /\ grants' = f.grants
           /\ logs' = f.logs
           /\ run' = f.run
    /\ queue' = <<>>
    /\ rendered' = [isScanning |-> isScanning, config |-> config]
    /\ UNCHANGED <<apiKey, eager, config, isScanning, nReq, nextId, pIn, pOut,
                   gIn, gOut>>

Next ==
    \/ ToggleNotification
    \/ EditRecipient
    \/ StartNoKey
    \/ StartIgnored
    \/ StartRun
    \/ \E r \in Runs : ExtractionSettles(r)
    \/ \E r \in Runs : NotificationSettles(r)
    \/ Render

Spec == Init /\ [][Next]_vars

(***************************************************************************)
(* The runs of Spec in which every accepted start request comes after the  *)
(* render that follows the last update of isScanning: one run at a time.   *)
(***************************************************************************)
StartRunRendered ==
    /\ rendered.isScanning = isScanning
    /\ StartRun

NextSequential ==
    \/ ToggleNotification
    \/ EditRecipient
    \/ StartNoKey
    \/ StartIgnored
    \/ StartRunRendered
    \/ \E r \in Runs : ExtractionSettles(r)
    \/ \E r \in Runs : NotificationSettles(r)
    \/ Render

SpecSequential == Init /\ [][NextSequential]_vars

(***************************************************************************)
(* Spec with its scheduling: an awaited call of the provider or of the     *)
(* dispatcher settles, and React renders the updates it holds.  Nothing    *)
(* is asked of the user's actions.                                         *)
(***************************************************************************)
Fairness ==
    /\ WF_vars(Render)
    /\ \A r \in Runs : WF_vars(ExtractionSettles(r))
    /\ \A r \in Runs : WF_vars(NotificationSettles(r))

SpecLive == Init /\ [][Next]_vars /\ Fairness

(***************************************************************************)
(* The parse step alone: an array of Grant objects wrapped in noise goes   *)
(* through the clean-up of discoverGrants.                                 *)
(***************************************************************************)
InitParse ==
    /\ InitApp
    /\ apiKey = TRUE
    /\ eager = TRUE
    /\ \E pre \in Noise : \E suf \in NoiseAfter(pre) : \E array \in ParseArrays :
          pIn = [pre |-> pre, array |-> array, suf |-> suf]
    /\ pOut = [done |-> FALSE, kind |-> "", value |-> <<>>]
    /\ NoComparison

ParseStep ==
    /\ ~pOut.done
    /\ LET p == parse(pIn.pre \o pIn.array \o pIn.suf)
       IN  pOut' = [done |-> TRUE, kind |-> p.kind, value |-> p.value]
    /\ UNCHANGED <<appVars, pIn, gIn, gOut>>

NextParse == ParseStep

SpecParse == InitParse /\ [][NextParse]_vars

(***************************************************************************)
(* The grounding log alone: discoverGrants on two answers of the provider  *)
(* with the same text and the grounding chunks a and b (lines 80-130).     *)
(***************************************************************************)
Sources == {NoChunks}
               \cup {[has |-> TRUE, list |-> l] : l \in SeqsUpTo(ChunkKinds, MaxSources)}

\* An array of one Grant, an array of two, the same in a fence, no text,
\* and a text without an array.
GroundingTexts == { serialise(<<Obj("A", 0)>>),
                    serialise(<<Obj("A", 0), Obj("B", -1)>>),
                    fenced(serialise(<<Obj("B", -1)>>)),
                    <<>>, <<Tok("x")>> }

InitGrounding ==
    /\ InitApp
    /\ apiKey = TRUE
    /\ eager = TRUE
    /\ pIn = [pre |-> <<>>, array |-> <<>>, suf |-> <<>>]
    /\ pOut = [done |-> FALSE, kind |-> "", value |-> <<>>]
    /\ \E text \in GroundingTexts : \E a \in Sources : \E b \in Sources :
          gIn = [text |-> text, a |-> a, b |-> b]
    /\ gOut = [done |-> FALSE, a |-> NoDiscovery, b |-> NoDiscovery]

GroundingStep ==
    /\ ~gOut.done
    /\ gOut' = [done |-> TRUE,
                a |-> discoverGrants(1, [error |-> FALSE, chunks |-> gIn.a,
                                         text |-> gIn.text], 0),
                b |-> discoverGrants(1, [error |-> FALSE, chunks |-> gIn.b,
                                         text |-> gIn.text], 0)]
    /\ UNCHANGED <<appVars, pIn, pOut, gIn>>

NextGrounding == GroundingStep

SpecGrounding == InitGrounding /\ [][NextGrounding]_vars

(***************************************************************************)
(* Claims.                                                                 *)
(***************************************************************************)
Recovered == pOut.kind = "value" /\ pOut.value = canon(pIn.array)

\* C8 (as stated): whatever prose or fence prefix and suffix is wrapped
\* around a valid JSON array of Grant objects, prefixes with '[' and
\* suffixes with ']' included, the parse step recovers an equal array.
C8_NoiseTolerance == pOut.done => Recovered

\* C8 (amended): the parse step recovers an equal array whenever the prefix
\* holds no '[' and the suffix holds no ']'.
C8_NoiseToleranceBracketFree ==
    (pOut.done /\ ~has(pIn.pre, "lb") /\ ~has(pIn.suf, "rb")) => Recovered

\* A fenced array behind a prefix with ']' and before a suffix with '[' was
\* parsed and recovered.
C8_Witness ==
    /\ pOut.done
    /\ has(pIn.pre, "rb") /\ has(pIn.suf, "lb")
    /\ Len(pIn.array) > 2
    /\ Recovered

InFlight == {r \in Runs : run[r].pc \in {"extracting", "notifying"}}

Finished(r) == run[r].pc = "done"

lower(gs) == {toLowerCase(gs[j].program_title) : j \in 1..Len(gs)}

AllIn(gs, repo) == \A j \in 1..Len(gs) : \E m \in 1..Len(repo) : repo[m] = gs[j]

\* C1: at most one run is in flight at a time, whatever the interleaving of
\* the invocations of handleRunDiscovery.
C1_SingleFlight == Cardinality(InFlight) <= 1

\* C2: a finished run has invoked sendNotification if and only if the
\* Grants its merge added are non-empty, notificationEnabled is true and
\* emailRecipient is non-empty.
C2_NotificationGating ==
    \A r \in Runs :
        (Finished(r) /\ queue = <<>>) =>
            ((run[r].notify # "none") <=>
                (/\ run[r].added # <<>>
                 /\ run[r].cfg.notificationEnabled
                 /\ run[r].cfg.emailRecipient # ""))

\* C3: a run whose extraction or parse failed returned no Grants, and its
\* merge neither ran nor is queued: it leaves the repository as it was.
C3_FatalFailureNoMerge ==
    \A r \in Runs :
        run[r].failed =>
            /\ run[r].results = <<>>
            /\ ~run[r].updated
            /\ run[r].added = <<>>
            /\ \A j \in 1..Len(queue) : queue[j].run # r

\* A second run failed while the repository held the Grants of the first.
C3_Witness ==
    /\ Finished(1) /\ run[1].updated /\ grants # <<>>
    /\ Finished(2) /\ run[2].failed
    /\ queue = <<>>

\* C4: the step in which sendNotification fails leaves the repository as it
\* is, with the Grants the run merged in it, logs an ERROR entry and then the
\* finalize entry, and sets isScanning to false; the merged Grants stay in
\* the repository ever after.
NotifyFailed(r) == run[r].notify \in {"failed", "rejected"}

C4_FailureStep ==
    \A r \in Runs :
        (run[r].pc = "notifying" /\ NotifyFailed(r)') =>
            /\ grants' = grants
            /\ run[r].newGrants # <<>>
            /\ AllIn(run[r].newGrants, grants')
            /\ Finished(r)'
            /\ isScanning' = FALSE
            /\ Len(logs') >= Len(logs) + 2
            /\ logs'[Len(logs') - 1].level = "ERROR"
            /\ logs'[Len(logs') - 1].run = r
            /\ logs'[Len(logs')] = L(r, "finalized", "INFO", 0)

C4_NotificationFailureNonFatal ==
    /\ [][C4_FailureStep]_vars
    /\ [](\A r \in Runs : NotifyFailed(r) => AllIn(run[r].newGrants, grants))

\* A run's notification failed and its Grants are in the repository.
C4_Witness ==
    \E r \in Runs :
        /\ Finished(r) /\ NotifyFailed(r)
        /\ run[r].newGrants # <<>>
        /\ AllIn(run[r].newGrants, grants)

\* C5: the entries of one run stand in the log in phase order: extraction,
\* parse, dedup, notification, finalize.
phase(e) ==
    CASE e.msg \in {"protocol", "year", "keywords", "query", "searchdone",
                    "accessed", "crawled"} -> 1
      [] e.msg \in {"parsefail", "extracted"} -> 2
      [] e.msg = "filtered" -> 3
      [] e.msg \in {"dispatch", "sent", "notifyfail", "skip"} -> 4
      [] e.msg = "finalized" -> 5
      [] OTHER -> 0

C5_LogOrdering ==
    \A j \in 1..Len(logs) : \A m \in (j + 1)..Len(logs) :
        (logs[j].run = logs[m].run /\ phase(logs[j]) > 0 /\ phase(logs[m]) > 0)
            => phase(logs[j]) <= phase(logs[m])

\* C6: once every merge has run, the repository holds exactly one Grant for
\* each lower-cased program_title extracted so far.
Extracted == UNION {lower(run[r].results) : r \in Runs}

C6_OnePerTitle ==
    queue = <<>> =>
        /\ lower(grants) = Extracted
        /\ \A j \in 1..Len(grants) : \A m \in 1..Len(grants) :
              j # m => toLowerCase(grants[j].program_title)
                          # toLowerCase(grants[m].program_title)

\* C7: of N candidates, M of them with a title that case-insensitively
\* equals a title of the repository, the dedup keeps the N - M others in
\* their order and logs 'Filtered M duplicates' exactly when M > 0.
Matching(r) ==
    {j \in 1..Len(run[r].results) :
        \E m \in 1..Len(run[r].prev) :
            toLowerCase(run[r].results[j].program_title)
                = toLowerCase(run[r].prev[m].program_title)}

Kept(r) == (1..Len(run[r].results)) \ Matching(r)

nth(S, n) == CHOOSE j \in S : Cardinality({m \in S : m <= j}) = n

C7_DedupArithmetic ==
    \A r \in Runs :
        run[r].updated =>
            /\ Len(run[r].added) = Len(run[r].results) - Cardinality(Matching(r))
            /\ \A n \in 1..Len(run[r].added) :
                  run[r].added[n] = run[r].results[nth(Kept(r), n)]
            /\ run[r].filtered = Cardinality(Matching(r))

\* A dedup of two candidates dropped one whose title differs in case from
\* the title in the repository, and kept the other.
C7_Witness ==
    \E r \in Runs :
        /\ run[r].updated
        /\ Len(run[r].results) = 2
        /\ Cardinality(Matching(r)) = 1
        /\ run[r].filtered = 1
        /\ \E j \in Matching(r) : \A m \in 1..Len(run[r].prev) :
              run[r].results[j].program_title # run[r].prev[m].program_title

\* C9: every Grant carries the id the parser generated for it, so the ids
\* of the repository are pairwise distinct.
C9_FreshIds ==
    /\ \A j \in 1..Len(grants) : grants[j].id > 0
    /\ \A j \in 1..Len(grants) : \A m \in 1..Len(grants) :
          j # m => grants[j].id # grants[m].id

\* C10 (as stated): the last entry of a run whose extraction or parse failed
\* has level ERROR.
OwnEntries(r) == SelectSeq(logs, LAMBDA e : e.run = r)

C10_AbortStep ==
    \A r \in Runs :
        (run[r].pc = "extracting" /\ run[r].failed') =>
            /\ Finished(r)'
            /\ isScanning' = FALSE
            /\ Len(logs') >= Len(logs) + 3
            /\ logs'[Len(logs') - 2].level = "ERROR"
            /\ logs'[Len(logs') - 1] = L(r, "aborted", "ERROR", 0)
            /\ logs'[Len(logs')] = L(r, "finalized", "INFO", 0)
            /\ \A j \in (Len(logs) + 1)..(Len(logs') - 1) : logs'[j].run = r

C11_NoKeyStep ==
    (~apiKey /\ nReq' = nReq + 1) =>
        /\ run'[nReq + 1].pc = "nokey"
        /\ InFlight' = {}
        /\ \A r \in Runs : run'[r].notify = "none"
        /\ Len(logs') = Len(logs) + 1
        /\ SubSeq(logs', 1, Len(logs)) = logs
        /\ logs'[Len(logs')].level = "ERROR"
        /\ grants' = grants
        /\ queue' = queue
        /\ ~isScanning /\ ~isScanning'

C11_MissingKeyAborts == [][C11_NoKeyStep]_vars

\* Two start requests were made without an API key.
C11_Witness ==
    /\ ~apiKey
    /\ nReq = 2
    /\ run[1].pc = "nokey" /\ run[2].pc = "nokey"
    /\ logs[Len(logs)] = L(0, "nokey", "ERROR", 0)
    /\ ~isScanning

\* C12: the repository only grows.  Every step leaves the Grants of the
\* repository where they were, unmodified and in their order, behind the
\* Grants it adds; the Grants added are the uniqueResults of the runs whose
\* merge ran in the step, each run merging at most once; a step in which no
\* merge runs (an abort, a failed notification) leaves the repository as
\* it was.
Merging == {r \in Runs : ~run[r].updated /\ run'[r].updated}

RECURSIVE addedBy(_)
addedBy(order) ==
    IF order = <<>> THEN <<>>
    ELSE addedBy(Tail(order)) \o run'[Head(order)].added

C12_GrowStep ==
    LET k == Len(grants') - Len(grants)
    IN  /\ k >= 0
        /\ SubSeq(grants', k + 1, Len(grants')) = grants
        /\ \E order \in [1..Cardinality(Merging) -> Merging] :
              /\ \A j, m \in DOMAIN order : j # m => order[j] # order[m]
              /\ SubSeq(grants', 1, k) = addedBy(order)
        /\ \A r \in Merging :
              /\ run'[r].added = uniqueResults(run'[r].results, run'[r].prev)
              /\ AllIn(run'[r].prev, grants')
        /\ \A r \in Runs :
              run[r].updated =>
                  /\ run'[r].updated
                  /\ run'[r].added = run[r].added
                  /\ run'[r].prev = run[r].prev
        /\ \A r \in Runs :
              (run'[r].failed \/ NotifyFailed(r)') => r \notin Merging

C12_RepositoryOnlyGrows == [][C12_GrowStep]_vars

\* The merge of a second run added Grants in front of the Grants the first
\* run had left in the repository.
C12_Witness ==
    /\ run[1].updated /\ run[1].added # <<>>
    /\ run[2].updated /\ run[2].added # <<>>
    /\ run[2].prev = run[1].added
    /\ grants = run[2].added \o run[1].added
    /\ queue = <<>>

\* C13: for two answers with the same text and any two lists of grounding
\* sources, discoverGrants has the same outcome and returns the same
\* Grants, its entries other than 'Accessed' and 'Crawled' are the same,
\* and it emits at most 3 'Crawled' entries.
titles(gs) == [j \in 1..Len(gs) |-> gs[j].program_title]

observable(entries) ==
    SelectSeq(entries, LAMBDA e : e.msg \notin {"accessed", "crawled"})

crawledCount(entries) == Len(SelectSeq(entries, LAMBDA e : e.msg = "crawled"))

C13_GroundingObservational ==
    gOut.done =>
        /\ gOut.a.ok = gOut.b.ok
        /\ titles(gOut.a.grants) = titles(gOut.b.grants)
        /\ observable(gOut.a.logs) = observable(gOut.b.logs)
        /\ crawledCount(gOut.a.logs) <= CrawlLimit
        /\ crawledCount(gOut.b.logs) <= CrawlLimit

\* C14: a run that is in flight eventually ends with isScanning false,
\* whichever way its awaited calls settle; and whenever isScanning is true,
\* a render with isScanning false eventually follows, at which the guard of
\* handleRunDiscovery lets a start request through.
C14_ReturnsToIdle ==
    /\ \A r \in Runs :
          (run[r].pc \in {"extracting", "notifying"}) ~> (Finished(r) /\ ~isScanning)
    /\ isScanning ~> (~isScanning /\ ~rendered.isScanning)

\* A run whose notification failed ended, and a start request made after
\* it (the log was cleared of its entries) was accepted and ended too.
C14_Witness ==
    /\ Finished(1) /\ NotifyFailed(1)
    /\ Finished(2) /\ run[2].failed
    /\ OwnEntries(1) = <<>>
    /\ ~isScanning /\ ~rendered.isScanning

====
